---------------------------- MODULE Spec2Model ----------------------------
(***************************************************************************)
(* State-machine model of scripts/generate_auction_data.py (the CSV        *)
(* generator) and of the calendar/week logic of                            *)
(* scripts/generate_mock_auction_data.py.                                  *)
(*                                                                         *)
(* Every call of the random module is a nondeterministic choice (\E) over  *)
(* the values the call can return.  Large ranges are sampled (Sample);     *)
(* the variable `vary' names the draw sites a specification enumerates,    *)
(* every other draw site takes one fixed admissible value, so that each    *)
(* behaviour of the model is a behaviour of the program.                   *)
(*                                                                         *)
(* Record fields that no checked property reads (names, e-mail, customer   *)
(* state, city, subcategory, make, model, year, bid timestamp) are left    *)
(* out of the records; their draws do not influence any modelled field.    *)
(***************************************************************************)
EXTENDS Integers, Sequences, FiniteSets, TLC

(***************************************************************************)
(* Bounds of the model.                                                    *)
(***************************************************************************)
\* range(2000), range(500), range(150) of generate_customers, scaled down
NumBuyers == 1
NumSellers == 1
NumBoth == 1
\* items generated before the model stops following the run
MaxItems == 2
\* randint(1, 15) of num_bids is enumerated on 1..MaxNumBids (and 15)
MaxNumBids == 2
\* number of sampling intervals of a sampled integer range
SampleK == 1

(***************************************************************************)
(* CONFIGURATION                                                           *)
(***************************************************************************)
Categories == <<"Construction", "Ag Equipment", "Truck/Trailer", "Passenger">>

\* weights in percent (0.20 -> 20)
CATEGORY_DISTRIBUTION ==
    [c \in {"Construction", "Ag Equipment", "Truck/Trailer", "Passenger"} |->
        CASE c = "Construction" -> 20
          [] c = "Ag Equipment" -> 25
          [] c = "Truck/Trailer" -> 35
          [] c = "Passenger" -> 20]

WEEK_10_DISTRIBUTION ==
    [c \in {"Construction", "Ag Equipment", "Truck/Trailer", "Passenger"} |->
        CASE c = "Construction" -> 15
          [] c = "Ag Equipment" -> 25
          [] c = "Truck/Trailer" -> 30
          [] c = "Passenger" -> 30]

PRICE_RANGES ==
    [c \in {"Construction", "Ag Equipment", "Truck/Trailer", "Passenger"} |->
        CASE c = "Construction" -> <<25000, 50000>>
          [] c = "Ag Equipment" -> <<15000, 35000>>
          [] c = "Truck/Trailer" -> <<8000, 20000>>
          [] c = "Passenger" -> <<2000, 8000>>]

\* keys of STATE_DISTRIBUTION in dict order
States ==
    <<"KS", "MO", "OK", "TX", "NE", "IA", "IL", "IN", "OH",
      "MI", "WI", "MN", "ND", "SD",
      "NC", "GA", "FL", "PA", "VA", "SC", "NY",
      "CA", "WA", "OR", "NV", "AZ", "CO">>

StateSet == {States[k] : k \in DOMAIN States}

STATE_DISTRIBUTION ==
    ("KS" :> 3500) @@ ("MO" :> 3000) @@ ("OK" :> 2500) @@ ("TX" :> 2000) @@
    ("NE" :> 800) @@ ("IA" :> 800) @@ ("IL" :> 800) @@ ("IN" :> 700) @@
    ("OH" :> 700) @@ ("MI" :> 500) @@ ("WI" :> 500) @@ ("MN" :> 500) @@
    ("ND" :> 200) @@ ("SD" :> 200) @@
    ("NC" :> 800) @@ ("GA" :> 800) @@ ("FL" :> 800) @@ ("PA" :> 400) @@
    ("VA" :> 400) @@ ("SC" :> 350) @@ ("NY" :> 200) @@
    ("CA" :> 1200) @@ ("WA" :> 700) @@ ("OR" :> 700) @@ ("NV" :> 400) @@
    ("AZ" :> 400) @@ ("CO" :> 350)

STATE_TO_REGION ==
    [s \in StateSet |->
        IF s \in {"KS", "MO", "OK", "TX", "NE", "IA", "IL", "IN", "OH",
                  "MI", "WI", "MN", "ND", "SD"} THEN 1
        ELSE IF s \in {"NC", "GA", "FL", "PA", "VA", "SC", "NY"} THEN 2
        ELSE 3]

Segments == <<"Core", "Enterprise", "Expansion">>

\* weights in percent
BUSINESS_SEGMENT_DISTRIBUTION ==
    [g \in {"Core", "Enterprise", "Expansion"} |->
        CASE g = "Core" -> 50
          [] g = "Enterprise" -> 15
          [] g = "Expansion" -> 35]

FeeNames == <<"Seller Service Fee", "Lot Fee", "Power Washing", "Decal Removal">>

FEE_TYPES ==
    [t \in {"Seller Service Fee", "Lot Fee", "Power Washing", "Decal Removal"} |->
        CASE t = "Seller Service Fee" -> 200
          [] t = "Lot Fee" -> 150
          [] t = "Power Washing" -> 225
          [] t = "Decal Removal" -> 100]

(***************************************************************************)
(* Dates.  A datetime at midnight is modelled by its proleptic Gregorian   *)
(* ordinal (datetime.toordinal()); adding timedelta(days=1) adds 1.        *)
(***************************************************************************)
IsLeap(y) == (y % 4 = 0) /\ ((y % 100 # 0) \/ (y % 400 = 0))

DaysInMonth(y, m) ==
    IF m = 2 THEN (IF IsLeap(y) THEN 29 ELSE 28)
    ELSE IF m \in {4, 6, 9, 11} THEN 30 ELSE 31

RECURSIVE DaysBeforeMonth(_, _)
DaysBeforeMonth(y, m) ==
    IF m = 1 THEN 0 ELSE DaysBeforeMonth(y, m - 1) + DaysInMonth(y, m - 1)

DaysBeforeYear(y) ==
    (y - 1) * 365 + ((y - 1) \div 4) - ((y - 1) \div 100) + ((y - 1) \div 400)

\* datetime(y, m, d)
Date(y, m, d) == DaysBeforeYear(y) + DaysBeforeMonth(y, m) + d

\* datetime.weekday(): 0 = Monday
Weekday(date) == (date + 6) % 7

\* datetime.month, for the dates of 2025 the program handles
MonthOf(date) ==
    CHOOSE m \in 1..12 :
        /\ Date(2025, m, 1) <= date
        /\ date < Date(2025, m, 1) + DaysInMonth(2025, m)

START_DATE == Date(2025, 8, 1)
END_DATE == Date(2025, 12, 31)
Holidays == {Date(2025, 11, 27), Date(2025, 12, 25)}

\* mutation: Wed, Thu, Fri (weekday() read as 1 = Monday)
AuctionWeekdaysShifted == {2, 3, 4}

\* the weekday() values generate_auction_dates keeps
AuctionWeekdays == {1, 2, 3}

\* body of the while loop of generate_auction_dates: the list after
\* looking at `current'
DatesBody(current, ds) ==
    IF Weekday(current) \in AuctionWeekdays
    THEN (IF current \notin Holidays THEN Append(ds, current) ELSE ds)
    ELSE ds

\* the dates the loop appends while `current' runs from lo to hi: the loop
\* body applied to lo, lo + 1, ..., hi in this order (split in halves, to
\* keep the evaluation shallow)
RECURSIVE DatesLoop(_, _)
DatesLoop(lo, hi) ==
    IF lo > hi THEN <<>>
    ELSE IF lo = hi THEN DatesBody(lo, <<>>)
    ELSE DatesLoop(lo, (lo + hi) \div 2) \o DatesLoop(((lo + hi) \div 2) + 1, hi)

\* generate_auction_dates(), run to its return
GenerateAuctionDates == DatesLoop(START_DATE, END_DATE)

get_week_number(date) == ((date - START_DATE) \div 7) + 1


(***************************************************************************)
(* State                                                                   *)
(***************************************************************************)
VARIABLES
    vary,            \* draw sites this run enumerates (fixed during a run)
    limit,           \* number of items after which the model stops (fixed)
    pc,              \* position in main(): "buyers", "sellers", "both",
                     \*   "dates", "days", "item", "bid", "done"
    customers,       \* generate_customers: customers
    customer_id,     \* generate_customers: customer_id
    i,               \* generate_customers: loop index of the running loop
    current,         \* generate_auction_dates: current
    dates,           \* generate_auction_dates: dates
    auction_dates,   \* generate_items_bids_fees: auction_dates
    day,             \* index in auction_dates of the for loop over the dates
    num_items,       \* items_per_day(auction_date) of the running day
    n_done,          \* iterations done of `for _ in range(num_items)'
    items, bids, fees,
    item_id, bid_id, fee_id,
    items_by_state,
    current_bid,     \* bid loop: current_bid
    bid_num,         \* bid loop: bid_num
    \* generate_mock_auction_data.py, the database variant
    mock_pc,         \* position in the script: "dates", "days", "done"
    mock_current,    \* generate_auction_dates: current
    mock_dates,      \* generate_auction_dates: dates, then the script's dates
    mock_day,        \* number of dates the for loop over dates has processed
    week_number,
    current_week_start,   \* 0 stands for None
    mix,             \* get_category_mix(week_number) of the last date
    mock_num_items,  \* items_per_day(auction_date) of the last date
    mock_item_id     \* the script's item_id

vars == <<vary, limit, pc, customers, customer_id, i, current, dates,
          auction_dates, day, num_items, n_done, items, bids, fees,
          item_id, bid_id, fee_id, items_by_state, current_bid, bid_num,
          mock_pc, mock_current, mock_dates, mock_day, week_number,
          current_week_start, mix, mock_num_items, mock_item_id>>

custVars == <<customers, customer_id, i>>
dateVars == <<current, dates, auction_dates>>
dayVars == <<day, num_items, n_done>>
outVars == <<items, bids, fees, item_id, bid_id, fee_id, items_by_state,
             current_bid, bid_num>>
mockVars == <<mock_pc, mock_current, mock_dates, mock_day, week_number,
              current_week_start, mix, mock_num_items, mock_item_id>>

(***************************************************************************)
(* Draws                                                                   *)
(***************************************************************************)
Range(seq) == {seq[k] : k \in DOMAIN seq}

\* the values enumerated for random.randint(lo, hi): both ends and
\* SampleK - 1 points between them
Sample(lo, hi) == {lo + (((hi - lo) * k) \div SampleK) : k \in 0..SampleK}

\* the values enumerated at a draw site: all of S when the run varies the
\* site, else the one value d of S
Draw(site, S, d) == IF site \in vary THEN S ELSE {d}

\* random.choices(keys, weights=..., k=1)[0]: a key of positive weight
\* (bisect over the cumulative weights never lands on a weight of 0)
Choices(keys, weights) == {keys[k] : k \in {j \in DOMAIN keys : weights[keys[j]] > 0}}

\* first key of positive weight, the fixed value of a weighted draw
FirstChoice(keys, weights) ==
    keys[CHOOSE k \in DOMAIN keys :
            /\ weights[keys[k]] > 0
            /\ \A j \in 1..(k - 1) : weights[keys[j]] = 0]

(***************************************************************************)
(* generate_customers                                                      *)
(***************************************************************************)
Customer(id, type, segment) ==
    [customer_id |-> id, customer_type |-> type, business_segment |-> segment]

SegmentDraws ==
    Draw("segment", Choices(Segments, BUSINESS_SEGMENT_DISTRIBUTION),
         FirstChoice(Segments, BUSINESS_SEGMENT_DISTRIBUTION))

\* one iteration of `for i in range(2000)'
GenerateBuyer ==
    /\ pc = "buyers"
    /\ i < NumBuyers
    /\ customers' = Append(customers, Customer(customer_id, "buyer", "None"))
    /\ customer_id' = customer_id + 1
    /\ IF i + 1 < NumBuyers
       THEN i' = i + 1 /\ pc' = pc
       ELSE i' = 0 /\ pc' = "sellers"
    /\ UNCHANGED <<mockVars, vary, limit, dateVars, dayVars, outVars>>

\* one iteration of `for i in range(500)'
GenerateSeller ==
    /\ pc = "sellers"
    /\ i < NumSellers
    /\ \E business_segment \in SegmentDraws :
          customers' = Append(customers,
                              Customer(customer_id, "seller", business_segment))
    /\ customer_id' = customer_id + 1
    /\ IF i + 1 < NumSellers
       THEN i' = i + 1 /\ pc' = pc
       ELSE i' = 0 /\ pc' = "both"
    /\ UNCHANGED <<mockVars, vary, limit, dateVars, dayVars, outVars>>

\* one iteration of `for i in range(150)'; after the last one main() calls
\* generate_items_bids_fees, which calls generate_auction_dates
GenerateBoth ==
    /\ pc = "both"
    /\ i < NumBoth
    /\ \E business_segment \in SegmentDraws :
          customers' = Append(customers,
                              Customer(customer_id, "both", business_segment))
    /\ customer_id' = customer_id + 1
    /\ IF i + 1 < NumBoth
       THEN i' = i + 1 /\ pc' = pc
       ELSE i' = 0 /\ pc' = "dates"
    /\ UNCHANGED <<mockVars, vary, limit, dateVars, dayVars, outVars>>

\* mutation: the seller pool is not filtered by customer_type
SellersUnfiltered(cs) == cs

\* the pools of generate_items_bids_fees
Sellers(cs) == SelectSeq(cs, LAMBDA c : c.customer_type \in {"seller", "both"})
Buyers(cs) == SelectSeq(cs, LAMBDA c : c.customer_type \in {"buyer", "both"})

(***************************************************************************)
(* generate_auction_dates                                                  *)
(***************************************************************************)
\* one iteration of `while current <= end_date'
AuctionDateStep ==
    /\ pc = "dates"
    /\ current <= END_DATE
    /\ dates' = DatesBody(current, dates)
    /\ current' = current + 1
    /\ UNCHANGED <<mockVars, vary, limit, pc, custVars, auction_dates, dayVars, outVars>>

\* `return dates', into auction_dates of generate_items_bids_fees
AuctionDatesReturn ==
    /\ pc = "dates"
    /\ current > END_DATE
    /\ auction_dates' = dates
    /\ pc' = "days"
    /\ UNCHANGED <<mockVars, vary, limit, custVars, current, dates, dayVars, outVars>>

(***************************************************************************)
(* Helpers of generate_items_bids_fees                                     *)
(***************************************************************************)
Max(a, b) == IF a >= b THEN a ELSE b

\* the bounds of random.randint in items_per_day(date)
ItemsPerDayRange(date) ==
    IF get_week_number(date) = 15 THEN <<180, 220>>
    ELSE IF MonthOf(date) = 12 THEN <<750, 900>>
    ELSE <<280, 350>>

ItemsPerDayDraws(date) ==
    Draw("num_items",
         Sample(ItemsPerDayRange(date)[1], ItemsPerDayRange(date)[2]),
         ItemsPerDayRange(date)[1])

get_category_distribution(date) ==
    IF get_week_number(date) = 10 THEN WEEK_10_DISTRIBUTION
    ELSE CATEGORY_DISTRIBUTION

CategoryDraws(date) ==
    Draw("category", Choices(Categories, get_category_distribution(date)),
         FirstChoice(Categories, get_category_distribution(date)))

\* remaining_states: target - items_by_state[s], floored at 0
RemainingStates(ibs) ==
    [s \in StateSet |-> Max(0, STATE_DISTRIBUTION[s] - ibs[s])]

RECURSIVE SumValues(_, _, _)
SumValues(keys, weights, k) ==
    IF k = 0 THEN 0 ELSE weights[keys[k]] + SumValues(keys, weights, k - 1)

\* sum(remaining_states.values())
RemainingTotal(ibs) == SumValues(States, RemainingStates(ibs), Len(States))

\* pick_weighted_state()
PickWeightedState ==
    Draw("state", Choices(States, STATE_DISTRIBUTION),
         FirstChoice(States, STATE_DISTRIBUTION))

\* mutation: the remaining quota is ignored
StateDrawsIgnoringQuota(ibs) == PickWeightedState

\* the state picked for a new item
StateDraws(ibs) ==
    IF RemainingTotal(ibs) = 0
    THEN PickWeightedState
    ELSE Draw("state", Choices(States, RemainingStates(ibs)),
              FirstChoice(States, RemainingStates(ibs)))

\* int(min_price * 0.t) for t tenths; equal to Python's float product
\* truncated for the four configured min_price values and t in {5,7,8,9}
IntTenths(x, t) == (x * t) \div 10

StartingBidDraws(category) ==
    Draw("starting_bid",
         Sample(IntTenths(PRICE_RANGES[category][1], 5),
                IntTenths(PRICE_RANGES[category][1], 8)),
         IntTenths(PRICE_RANGES[category][1], 5))

\* mutation: the reserve is drawn up to 1.1 * min_price
ReservePriceDrawsOverlapping(category) ==
    Draw("reserve_price",
         Sample(IntTenths(PRICE_RANGES[category][1], 7),
                IntTenths(PRICE_RANGES[category][1], 11)),
         IntTenths(PRICE_RANGES[category][1], 7))

ReservePriceDraws(category) ==
    Draw("reserve_price",
         Sample(IntTenths(PRICE_RANGES[category][1], 7),
                IntTenths(PRICE_RANGES[category][1], 9)),
         IntTenths(PRICE_RANGES[category][1], 7))

\* random.randint(min_price, max_price)
HammerDraws(category) ==
    IF "hammer_all" \in vary
    THEN PRICE_RANGES[category][1]..PRICE_RANGES[category][2]
    ELSE Draw("hammer",
              Sample(PRICE_RANGES[category][1], PRICE_RANGES[category][2]),
              PRICE_RANGES[category][1])

\* mutation: the comparison is reversed
ReserveMetReversed(hammer, reserve_price) ==
    IF hammer <= reserve_price THEN 1 ELSE 0

\* 1 if hammer >= reserve_price else 0
ReserveMet(hammer, reserve_price) == IF hammer >= reserve_price THEN 1 ELSE 0

\* mutation: round(hammer * 0.10) instead of int(hammer * 0.10)
BuyersPremiumRounded(hammer) ==
    IF hammer % 10 < 5 THEN hammer \div 10
    ELSE IF hammer % 10 > 5 THEN (hammer \div 10) + 1
    ELSE (hammer \div 10) + ((hammer \div 10) % 2)

\* int(hammer * 0.10): the float product truncated; equal to hammer // 10
\* for every hammer of 2000..50000
BuyersPremium(hammer) == hammer \div 10

\* hammer + buyers_premium
ContractPrice(hammer, buyers_premium) == hammer + buyers_premium

\* mutation: territory_base = district_id * 8
GeoDrawsOffByOne(state) ==
    LET region_id == STATE_TO_REGION[state]
        district_base == (region_id - 1) * 4
    IN  Draw("geo",
             {<<region_id, d, (d * 8) + t>> :
                 d \in (district_base + 1)..(district_base + 4), t \in 1..8},
             <<region_id, district_base + 1, ((district_base + 1) * 8) + 1>>)

\* get_region_district_territory(state): <<region_id, district_id, territory_id>>
GeoDraws(state) ==
    LET region_id == STATE_TO_REGION[state]
        district_base == (region_id - 1) * 4
        all == {<<region_id, d, t>> :
                   d \in (district_base + 1)..(district_base + 4),
                   t \in 1..96}
    IN  Draw("geo",
             {g \in all : /\ g[3] >= (g[2] - 1) * 8 + 1
                          /\ g[3] <= (g[2] - 1) * 8 + 8},
             <<region_id, district_base + 1, district_base * 8 + 1>>)

WithSegment(pool, segment) ==
    SelectSeq(pool, LAMBDA c : c.business_segment = segment)

\* pick_seller_for_category(sellers, category): the sellers it can return.
\* `prefer' is the outcome of `random.random() < 0.70' (resp. 0.60), drawn
\* only when the preferred list is not empty.
PickSellerForCategory(sellers, category) ==
    LET preferred ==
            IF category = "Construction" THEN WithSegment(sellers, "Enterprise")
            ELSE IF category = "Passenger" THEN WithSegment(sellers, "Core")
            ELSE <<>>
        early == IF preferred # <<>> THEN Range(preferred) ELSE {}
    IN  Draw("seller", early \cup Range(sellers), sellers[1])

\* random.choice(buyers), for the item's buyer
BuyerDraws(buyers) == Draw("buyer", Range(buyers), buyers[1])

\* random.choice(buyers), for a bid's bidder
BidderDraws(buyers) == Draw("bidder", Range(buyers), buyers[1])

\* generate_icn(): two letters and four digits, as a sequence of characters
IcnDraws ==
    Draw("icn",
         {<<a, b, c, d, e, f>> : a \in {"A", "Z"}, b \in {"A", "Z"},
                                 c \in {"0", "9"}, d \in {"0", "9"},
                                 e \in {"0", "9"}, f \in {"0", "9"}},
         <<"A", "A", "0", "0", "0", "0">>)

NUM_BIDS_LO == 1
NUM_BIDS_HI == 15

\* mutation: random.randint(0, 15)
NumBidsDrawsFromZero == {0, NUM_BIDS_LO, NUM_BIDS_HI}

\* random.randint(1, 15)
NumBidsDraws ==
    LET low == {n \in NUM_BIDS_LO..NUM_BIDS_HI : n <= MaxNumBids}
    IN  IF "num_bids_hi" \in vary
        THEN Draw("num_bids", low, NUM_BIDS_LO) \cup {NUM_BIDS_HI}
        ELSE Draw("num_bids", low, NUM_BIDS_LO)

\* random.randint(100, 1000)
IncrementDraws == Draw("increment", Sample(100, 1000), 100)

\* mutation: the last iteration is taken to be bid_num == num_bids
IsWinningOffByOne(bn, num_bids) == IF bn = num_bids THEN 1 ELSE 0

\* 1 if bid_num == num_bids - 1 else 0
IsWinning(bn, num_bids) == IF bn = num_bids - 1 THEN 1 ELSE 0

\* mutation: bids are numbered within their item (bid_id = bid_num + 1)
MakeBidLocalId(bn, item, bidder, increment) ==
    LET is_winning == IsWinning(bn, item.num_bids)
        raised == current_bid + increment
    IN  [bid_id |-> bn + 1,
         item_id |-> item_id,
         bidder_id |-> IF is_winning = 1 THEN item.buyer_id
                       ELSE bidder.customer_id,
         bid_amount |-> IF is_winning = 1 THEN item.hammer ELSE raised,
         is_winning_bid |-> is_winning]

\* the bid appended in one iteration of `for bid_num in range(num_bids)'
MakeBid(bn, item, bidder, increment) ==
    LET is_winning == IsWinning(bn, item.num_bids)
        raised == current_bid + increment
    IN  [bid_id |-> bid_id,
         item_id |-> item_id,
         bidder_id |-> IF is_winning = 1 THEN item.buyer_id
                       ELSE bidder.customer_id,
         bid_amount |-> IF is_winning = 1 THEN item.hammer ELSE raised,
         is_winning_bid |-> is_winning]

Fee(id, type) ==
    [fee_id |-> id, item_id |-> item_id, fee_type |-> type,
     fee_amount |-> FEE_TYPES[type]]

\* mutation: the Lot Fee is appended only with the Power Washing fee
ItemFeesLotOptional(power_washing, decal_removal) ==
    LET one == <<Fee(fee_id, "Seller Service Fee")>>
        three == IF power_washing
                 THEN one \o <<Fee(fee_id + 1, "Lot Fee"),
                               Fee(fee_id + 2, "Power Washing")>>
                 ELSE one
    IN  IF decal_removal
        THEN Append(three, Fee(fee_id + Len(three), "Decal Removal"))
        ELSE three

\* the fee records appended for one item; power_washing and decal_removal
\* are the outcomes of `random.random() < 0.60' and `random.random() < 0.20'
ItemFees(power_washing, decal_removal) ==
    LET two == <<Fee(fee_id, "Seller Service Fee"), Fee(fee_id + 1, "Lot Fee")>>
        three == IF power_washing
                 THEN Append(two, Fee(fee_id + 2, "Power Washing"))
                 ELSE two
    IN  IF decal_removal
        THEN Append(three, Fee(fee_id + Len(three), "Decal Removal"))
        ELSE three

(***************************************************************************)
(* generate_items_bids_fees                                                *)
(***************************************************************************)
\* `for auction_date in auction_dates': the next date, items_per_day
StartDay ==
    /\ pc = "days"
    /\ day <= Len(auction_dates)
    /\ \E n \in ItemsPerDayDraws(auction_dates[day]) : num_items' = n
    /\ n_done' = 0
    /\ pc' = "item"
    /\ UNCHANGED <<mockVars, vary, limit, custVars, dateVars, day, outVars>>

\* one iteration of `for _ in range(num_items)' down to items.append(item)
GenerateItem ==
    /\ pc = "item"
    /\ n_done < num_items
    /\ Len(items) < limit
    /\ LET auction_date == auction_dates[day]
           sellers == Sellers(customers)
           buyers == Buyers(customers)
       IN  \E category \in CategoryDraws(auction_date) :
           \E state \in StateDraws(items_by_state) :
           \E starting_bid \in StartingBidDraws(category) :
           \E reserve_price \in ReservePriceDraws(category) :
           \E hammer \in HammerDraws(category) :
           \E geo \in GeoDraws(state) :
           \E seller \in PickSellerForCategory(sellers, category) :
           \E buyer \in BuyerDraws(buyers) :
           \E icn \in IcnDraws :
           \E num_bids \in NumBidsDraws :
              /\ items_by_state' =
                    [items_by_state EXCEPT ![state] = items_by_state[state] + 1]
              /\ items' = Append(items,
                    [unique_id |-> item_id,
                     icn |-> icn,
                     auctiondate |-> auction_date,
                     category |-> category,
                     location_state |-> state,
                     starting_bid |-> starting_bid,
                     reserve_price |-> reserve_price,
                     hammer |-> hammer,
                     buyers_premium |-> BuyersPremium(hammer),
                     contract_price |->
                         ContractPrice(hammer, BuyersPremium(hammer)),
                     reserve_met |-> ReserveMet(hammer, reserve_price),
                     seller_id |-> seller.customer_id,
                     buyer_id |-> buyer.customer_id,
                     num_bids |-> num_bids,
                     region_id |-> geo[1],
                     district_id |-> geo[2],
                     territory_id |-> geo[3],
                     business_segment |-> seller.business_segment])
              /\ current_bid' = starting_bid
    /\ bid_num' = 0
    /\ pc' = "bid"
    /\ UNCHANGED <<mockVars, vary, limit, custVars, dateVars, dayVars, bids, fees,
                   item_id, bid_id, fee_id>>

\* one iteration of `for bid_num in range(num_bids)'
GenerateBid ==
    /\ pc = "bid"
    /\ bid_num < items[Len(items)].num_bids
    /\ \E bidder \in BidderDraws(Buyers(customers)) :
       \E increment \in IncrementDraws :
          LET bid == MakeBid(bid_num, items[Len(items)], bidder, increment)
          IN  /\ bids' = Append(bids, bid)
              /\ current_bid' = bid.bid_amount
    /\ bid_id' = bid_id + 1
    /\ bid_num' = bid_num + 1
    /\ UNCHANGED <<mockVars, vary, limit, pc, custVars, dateVars, dayVars, items, fees,
                   item_id, fee_id, items_by_state>>

\* after the bid loop: the fee records of the item, then item_id += 1
GenerateFees ==
    /\ pc = "bid"
    /\ bid_num >= items[Len(items)].num_bids
    /\ \E power_washing \in Draw("fees", BOOLEAN, FALSE) :
       \E decal_removal \in Draw("fees", BOOLEAN, FALSE) :
          LET new == ItemFees(power_washing, decal_removal)
          IN  /\ fees' = fees \o new
              /\ fee_id' = fee_id + Len(new)
    /\ item_id' = item_id + 1
    /\ n_done' = n_done + 1
    /\ pc' = "item"
    /\ UNCHANGED <<mockVars, vary, limit, custVars, dateVars, day, num_items, items,
                   bids, bid_id, items_by_state, current_bid, bid_num>>

\* `for _ in range(num_items)' is exhausted: on to the next auction date
EndDay ==
    /\ pc = "item"
    /\ n_done >= num_items
    /\ day' = day + 1
    /\ pc' = "days"
    /\ UNCHANGED <<mockVars, vary, limit, custVars, dateVars, num_items, n_done, outVars>>

\* `for auction_date in auction_dates' is exhausted: return items, bids, fees
Return ==
    /\ pc = "days"
    /\ day > Len(auction_dates)
    /\ pc' = "done"
    /\ UNCHANGED <<mockVars, vary, limit, custVars, dateVars, dayVars, outVars>>

(***************************************************************************)
(* generate_mock_auction_data.py: the database variant                     *)
(***************************************************************************)
MOCK_START_DATE == Date(2025, 8, 1)
MOCK_END_DATE == Date(2025, 12, 31)

\* the weekday() values the database variant keeps
MockAuctionWeekdays == {1, 2, 3}

\* body of the while loop of the database variant's generate_auction_dates
\* (no holiday is left out)
MockDatesBody(cur, ds) ==
    IF Weekday(cur) \in MockAuctionWeekdays THEN Append(ds, cur) ELSE ds

\* one iteration of `while current <= end_date'
MockDateStep ==
    /\ mock_pc = "dates"
    /\ mock_current <= MOCK_END_DATE
    /\ mock_dates' = MockDatesBody(mock_current, mock_dates)
    /\ mock_current' = mock_current + 1
    /\ UNCHANGED <<vary, limit, pc, custVars, dateVars, dayVars, outVars,
                   mock_pc, mock_day, week_number, current_week_start, mix,
                   mock_num_items, mock_item_id>>

\* `return dates', then item_id = 1, week_number = 0,
\* current_week_start = None
MockDatesReturn ==
    /\ mock_pc = "dates"
    /\ mock_current > MOCK_END_DATE
    /\ mock_pc' = "days"
    /\ mock_item_id' = 1
    /\ week_number' = 0
    /\ current_week_start' = 0
    /\ UNCHANGED <<vary, limit, pc, custVars, dateVars, dayVars, outVars,
                   mock_current, mock_dates, mock_day, mix, mock_num_items>>

\* items_per_day of the database variant: the randint range
MockItemsPerDayRange(date) ==
    IF MonthOf(date) = 12 THEN <<600, 1200>> ELSE <<200, 300>>

MockItemsPerDayDraws(date) ==
    Draw("num_items",
         Sample(MockItemsPerDayRange(date)[1], MockItemsPerDayRange(date)[2]),
         MockItemsPerDayRange(date)[1])

\* the tables get_category_mix returns, in percent
MOCK_WEEK_10_MIX ==
    [c \in Range(Categories) |->
        CASE c = "Construction" -> 15
          [] c = "Ag Equipment" -> 20
          [] c = "Truck/Trailer" -> 35
          [] c = "Passenger" -> 30]

MOCK_WEEK_15_MIX ==
    [c \in Range(Categories) |->
        CASE c = "Construction" -> 18
          [] c = "Ag Equipment" -> 22
          [] c = "Truck/Trailer" -> 38
          [] c = "Passenger" -> 22]

MOCK_NORMAL_MIX ==
    [c \in Range(Categories) |->
        CASE c = "Construction" -> 20
          [] c = "Ag Equipment" -> 25
          [] c = "Truck/Trailer" -> 35
          [] c = "Passenger" -> 20]

get_category_mix(week) ==
    IF week = 10 THEN MOCK_WEEK_10_MIX
    ELSE IF week = 15 THEN MOCK_WEEK_15_MIX
    ELSE MOCK_NORMAL_MIX

MockNewWeekStrict(auction_date, week_start) ==
    \/ week_start = 0
    \/ auction_date - week_start > 7

\* `current_week_start is None or
\*  (auction_date - current_week_start).days >= 7'
MockNewWeek(auction_date, week_start) ==
    \/ week_start = 0
    \/ auction_date - week_start >= 7

\* one iteration of `for auction_date in dates': the week tracking, the mix,
\* the number of items, and the num_items rows inserted in the table, each
\* of which advances item_id by one
MockDay ==
    /\ mock_pc = "days"
    /\ mock_day < Len(mock_dates)
    /\ LET auction_date == mock_dates[mock_day + 1]
           new == MockNewWeek(auction_date, current_week_start)
           week == IF new THEN week_number + 1 ELSE week_number
       IN  /\ week_number' = week
           /\ current_week_start' = IF new THEN auction_date
                                    ELSE current_week_start
           /\ mix' = get_category_mix(week)
           /\ \E n \in MockItemsPerDayDraws(auction_date) :
                 /\ mock_num_items' = n
                 /\ mock_item_id' = mock_item_id + n
    /\ mock_day' = mock_day + 1
    /\ UNCHANGED <<vary, limit, pc, custVars, dateVars, dayVars, outVars,
                   mock_pc, mock_current, mock_dates>>

\* the for loop over dates is over: the last commit
MockFinish ==
    /\ mock_pc = "days"
    /\ mock_day = Len(mock_dates)
    /\ mock_pc' = "done"
    /\ UNCHANGED <<vary, limit, pc, custVars, dateVars, dayVars, outVars,
                   mock_current, mock_dates, mock_day, week_number,
                   current_week_start, mix, mock_num_items, mock_item_id>>

\* the state the database variant starts generate_auction_dates in
MockStart ==
    /\ mock_pc = "dates"
    /\ mock_current = MOCK_START_DATE
    /\ mock_dates = <<>>
    /\ mock_day = 0
    /\ week_number = 0
    /\ current_week_start = 0
    /\ mix = [c \in Range(Categories) |-> 0]
    /\ mock_num_items = 0
    /\ mock_item_id = 0

(***************************************************************************)
(* Specifications                                                          *)
(***************************************************************************)
\* the state main() starts generate_customers in
Start ==
    /\ pc = "buyers"
    /\ customers = <<>>
    /\ customer_id = 1
    /\ i = 0
    /\ current = START_DATE
    /\ dates = <<>>
    /\ auction_dates = <<>>
    /\ day = 1
    /\ num_items = 0
    /\ n_done = 0
    /\ items = <<>>
    /\ bids = <<>>
    /\ fees = <<>>
    /\ item_id = 1
    /\ bid_id = 1
    /\ fee_id = 1
    /\ items_by_state = [s \in StateSet |-> 0]
    /\ current_bid = 0
    /\ bid_num = 0
    /\ MockStart

\* the run from its start, up to the first `limit' items
Next ==
    \/ GenerateBuyer
    \/ GenerateSeller
    \/ GenerateBoth
    \/ AuctionDateStep
    \/ AuctionDatesReturn
    \/ StartDay
    \/ GenerateItem
    \/ GenerateBid
    \/ GenerateFees

\* the seller and buyer pools: segments, categories, sellers, buyers and
\* bidders vary; one item
Init ==
    /\ Start
    /\ vary = {"segment", "category", "seller", "buyer", "bidder", "num_bids"}
    /\ limit = 1

Spec == Init /\ [][Next]_vars

\* the bid loop: prices, increments, bid counts, buyers and bidders vary;
\* one item
InitBids ==
    /\ Start
    /\ vary = {"category", "starting_bid", "hammer", "num_bids", "increment",
               "buyer", "bidder"}
    /\ limit = 1

SpecBids == InitBids /\ [][Next]_vars

\* several items in a row: bid counts (15 included) and fees vary
InitItems ==
    /\ Start
    /\ vary = {"num_bids", "num_bids_hi", "fees"}
    /\ limit = MaxItems

SpecItems == InitItems /\ [][Next]_vars

\* the prices: every hammer of the category's range, sampled reserves;
\* one item
InitPrice ==
    /\ Start
    /\ vary = {"category", "hammer_all", "reserve_price"}
    /\ limit = 1

SpecPrice == InitPrice /\ [][Next]_vars

\* the geographic hierarchy: every state, district and territory; one item
InitGeo ==
    /\ Start
    /\ vary = {"state", "geo"}
    /\ limit = 1

SpecGeo == InitGeo /\ [][Next]_vars

\* the control numbers: the ICNs of several items vary
InitIcn ==
    /\ Start
    /\ vary = {"icn"}
    /\ limit = MaxItems

SpecIcn == InitIcn /\ [][Next]_vars

(***************************************************************************)
(* The end of the run, where the state quotas run out.  The run is taken   *)
(* up on the last auction date with QuotaLeft items to go and at most      *)
(* QuotaLeft items missing from the quotas; since the days before can add  *)
(* up to any count of 22700..27910 items, every such state is reached.     *)
(* items, bids and fees hold the records emitted from there on.            *)
(* bid_id and fee_id have their least values there (one bid and two fees   *)
(* for each earlier item).                                                 *)
(***************************************************************************)
\* items missing from the state quotas where the run is taken up
QuotaLeft == 2

RECURSIVE SumCounts(_, _)
SumCounts(f, k) == IF k = 0 THEN 0 ELSE f[States[k]] + SumCounts(f, k - 1)

\* items_by_state with `missing' items missing from the quotas, spread over
\* at most `missing' states
QuotaCounts(missing) ==
    IF missing = 0 THEN {[s \in StateSet |-> STATE_DISTRIBUTION[s]]}
    ELSE {[s \in StateSet |->
              STATE_DISTRIBUTION[s] - Cardinality({j \in 1..missing : g[j] = s})] :
          g \in [1..missing -> StateSet]}

InitQuota ==
    /\ vary = {"state"}
    /\ limit = QuotaLeft
    /\ pc = "item"
    /\ customers = <<Customer(1, "buyer", "None"), Customer(2, "seller", "Core"),
                     Customer(3, "both", "Core")>>
    /\ customer_id = 4
    /\ i = 0
    /\ current = END_DATE + 1
    /\ dates = GenerateAuctionDates
    /\ auction_dates = GenerateAuctionDates
    /\ day = Len(GenerateAuctionDates)
    /\ num_items = 750
    /\ n_done = num_items - QuotaLeft
    /\ items = <<>>
    /\ bids = <<>>
    /\ fees = <<>>
    /\ \E missing \in 0..QuotaLeft :
          items_by_state \in QuotaCounts(missing)
    /\ item_id = SumCounts(items_by_state, Len(States)) + 1
    /\ bid_id = item_id
    /\ fee_id = 2 * (item_id - 1) + 1
    /\ current_bid = 0
    /\ bid_num = 0
    /\ MockStart

NextQuota ==
    \/ GenerateItem
    \/ GenerateBid
    \/ GenerateFees
    \/ EndDay
    \/ Return

SpecQuota == InitQuota /\ [][NextQuota]_vars

(***************************************************************************)
(* The start of any auction day.  The run is taken up where the loop over  *)
(* the auction dates reaches a date, in the state the run has there when   *)
(* every draw before took its fixed value: each earlier day had its least  *)
(* item count, every item went to the first state with quota left and had  *)
(* one bid and two fees.  items, bids and fees hold the records emitted    *)
(* from there on.                                                          *)
(***************************************************************************)
RECURSIVE LeastItemsBefore(_)
LeastItemsBefore(d) ==
    IF d <= 1 THEN 0
    ELSE LeastItemsBefore(d - 1) + ItemsPerDayRange(GenerateAuctionDates[d - 1])[1]

RECURSIVE TargetsBefore(_)
TargetsBefore(k) ==
    IF k <= 1 THEN 0 ELSE TargetsBefore(k - 1) + STATE_DISTRIBUTION[States[k - 1]]

\* items_by_state after n items that each went to the first state with
\* quota left
FirstFilled(n) ==
    [s \in StateSet |->
        LET k == CHOOSE j \in DOMAIN States : States[j] = s
            over == Max(0, n - TargetsBefore(k))
        IN  IF over >= STATE_DISTRIBUTION[s] THEN STATE_DISTRIBUTION[s] ELSE over]

InitDays ==
    /\ vary = {"num_items"}
    /\ limit = 1
    /\ pc = "days"
    /\ customers = <<Customer(1, "buyer", "None"), Customer(2, "seller", "Core"),
                     Customer(3, "both", "Core")>>
    /\ customer_id = 4
    /\ i = 0
    /\ current = END_DATE + 1
    /\ dates = GenerateAuctionDates
    /\ auction_dates = GenerateAuctionDates
    /\ day \in 1..Len(GenerateAuctionDates)
    /\ num_items = IF day = 1 THEN 0
                   ELSE ItemsPerDayRange(GenerateAuctionDates[day - 1])[1]
    /\ n_done = num_items
    /\ items = <<>>
    /\ bids = <<>>
    /\ fees = <<>>
    /\ item_id = LeastItemsBefore(day) + 1
    /\ bid_id = item_id
    /\ fee_id = 2 * (item_id - 1) + 1
    /\ items_by_state = FirstFilled(item_id - 1)
    /\ current_bid = IF day = 1 THEN 0 ELSE PRICE_RANGES[Categories[1]][1]
    /\ bid_num = IF day = 1 THEN 0 ELSE 1
    /\ MockStart

NextDays ==
    \/ StartDay
    \/ GenerateItem
    \/ GenerateBid
    \/ GenerateFees

SpecDays == InitDays /\ [][NextDays]_vars

\* the database variant from its start; the CSV variant is not run, and the
\* number of items of a day varies
InitMock ==
    /\ Start
    /\ vary = {"num_items"}
    /\ limit = 0

NextMock ==
    \/ MockDateStep
    \/ MockDatesReturn
    \/ MockDay
    \/ MockFinish

SpecMock == InitMock /\ [][NextMock]_vars

(***************************************************************************)
(* Properties                                                              *)
(***************************************************************************)
\* item k has all its bids and fees: the loop body ran to `item_id += 1'
Completed(k) == k \in DOMAIN items /\ items[k].unique_id < item_id

BidsOf(k) == SelectSeq(bids, LAMBDA b : b.item_id = items[k].unique_id)
FeesOf(k) == SelectSeq(fees, LAMBDA f : f.item_id = items[k].unique_id)

\* Python's round(hammer * 0.10): to the nearest integer, ties to even
\* (the float products of 2000..50000 round as the exact tenths do)
Round10(hammer) ==
    LET q == hammer \div 10
        r == hammer % 10
    IN  IF r < 5 THEN q
        ELSE IF r > 5 THEN q + 1
        ELSE IF q % 2 = 0 THEN q ELSE q + 1

\* C1 as stated: buyers_premium = round(hammer * 0.10) and
\* contract_price = hammer + round(hammer * 0.10), for every item
C1_PremiumIsRounded ==
    \A k \in DOMAIN items :
        /\ items[k].buyers_premium = Round10(items[k].hammer)
        /\ items[k].contract_price = items[k].hammer + Round10(items[k].hammer)

\* C1 amended: buyers_premium is hammer * 0.10 truncated to an integer
\* (the largest p with 10 * p <= hammer), contract_price is hammer plus it,
\* and the premium is the rounded value or one less
C1_PremiumIsTruncated ==
    \A k \in DOMAIN items :
        /\ items[k].hammer \in 2000..50000
        /\ 10 * items[k].buyers_premium <= items[k].hammer
        /\ items[k].hammer < 10 * items[k].buyers_premium + 10
        /\ items[k].contract_price = items[k].hammer + items[k].buyers_premium
        /\ Round10(items[k].hammer) - items[k].buyers_premium \in {0, 1}

\* an item whose hammer ends in 9, where truncating and rounding differ
C1_Witness ==
    \E k \in DOMAIN items :
        /\ items[k].hammer % 10 = 9
        /\ items[k].buyers_premium = Round10(items[k].hammer) - 1

\* C2 as stated: the bid amounts of an item, in the order generated, are
\* strictly increasing, the final bid included
C2_BidsStrictlyIncreasing ==
    \A j \in 2..Len(bids) :
        bids[j].item_id = bids[j - 1].item_id
            => bids[j].bid_amount > bids[j - 1].bid_amount

\* C3: a completed item has exactly one winning bid, its last one, with the
\* item's hammer as amount and the item's buyer as bidder; the others have
\* is_winning_bid = 0
C3_OneWinningBid ==
    \A k \in DOMAIN items :
        Completed(k) =>
            LET bs == BidsOf(k)
            IN  /\ Cardinality({j \in DOMAIN bs : bs[j].is_winning_bid = 1}) = 1
                /\ Len(bs) >= 1
                /\ bs[Len(bs)].is_winning_bid = 1
                /\ bs[Len(bs)].bid_amount = items[k].hammer
                /\ bs[Len(bs)].bidder_id = items[k].buyer_id
                /\ \A j \in 1..(Len(bs) - 1) : bs[j].is_winning_bid = 0

\* a completed item with two bids, the first from another bidder than the
\* buyer and with another amount than the hammer
C3_Witness ==
    \E k \in DOMAIN items :
        /\ Completed(k)
        /\ Len(BidsOf(k)) = 2
        /\ BidsOf(k)[1].bidder_id # items[k].buyer_id
        /\ BidsOf(k)[1].bid_amount # items[k].hammer

\* C4: a completed item has num_bids bid records, and num_bids is in 1..15
C4_BidCount ==
    \A k \in DOMAIN items :
        /\ items[k].num_bids \in 1..15
        /\ Completed(k) => Len(BidsOf(k)) = items[k].num_bids

\* two completed items, one with 15 bids and one with 2
C4_Witness ==
    /\ Len(items) = 2
    /\ Completed(2)
    /\ items[1].num_bids = 15 /\ Len(BidsOf(1)) = 15
    /\ items[2].num_bids = 2 /\ Len(BidsOf(2)) = 2

\* C5: while some state has quota left, no state is over its quota (a
\* state whose quota is used up is not picked before all quotas are)
C5_QuotaPhase ==
    (\E s \in StateSet : items_by_state[s] < STATE_DISTRIBUTION[s])
        => (\A s \in StateSet : items_by_state[s] <= STATE_DISTRIBUTION[s])

\* two items: the first is picked while one state has quota left and uses
\* it up, the second, picked when every quota is used up, puts another
\* state over its quota
C5_Witness ==
    /\ Len(items) = 2
    /\ items[1].location_state # items[2].location_state
    /\ items_by_state[items[1].location_state]
          = STATE_DISTRIBUTION[items[1].location_state]
    /\ items_by_state[items[2].location_state]
          = STATE_DISTRIBUTION[items[2].location_state] + 1
    /\ \A s \in StateSet : items_by_state[s] >= STATE_DISTRIBUTION[s]

\* the days of 2025-08-01..2025-12-31 (153 days, counted from 0) that are a
\* Tuesday, Wednesday or Thursday (2025-08-01 is a Friday) and neither
\* 2025-11-27 (day 118) nor 2025-12-25 (day 146)
ExpectedAuctionDays ==
    {k \in 0..152 : /\ (k + 4) % 7 \in {1, 2, 3}
                    /\ k \notin {118, 146}}

\* C6: generate_auction_dates returns exactly those days, in strictly
\* increasing order, and collects nothing else on the way
C6_AuctionDates ==
    /\ \A k \in DOMAIN dates : dates[k] - START_DATE \in ExpectedAuctionDays
    /\ pc \notin {"buyers", "sellers", "both", "dates"} =>
          /\ {auction_dates[k] - START_DATE : k \in DOMAIN auction_dates}
                = ExpectedAuctionDays
          /\ \A k \in 2..Len(auction_dates) :
                auction_dates[k - 1] < auction_dates[k]

\* generate_auction_dates has returned its 63 dates, 2025-08-05 first and
\* 2025-12-31 last
C6_Witness ==
    /\ pc = "days"
    /\ Len(auction_dates) = 63
    /\ auction_dates[1] = START_DATE + 4
    /\ auction_dates[63] = START_DATE + 152

FeeCount(fs, type) == Cardinality({j \in DOMAIN fs : fs[j].fee_type = type})

\* C7: a completed item has one Seller Service Fee (200), one Lot Fee (150),
\* at most one Power Washing (225), at most one Decal Removal (100) and no
\* other fee: 2 to 4 fee records
C7_ItemFees ==
    \A k \in DOMAIN items :
        Completed(k) =>
            LET fs == FeesOf(k)
            IN  /\ FeeCount(fs, "Seller Service Fee") = 1
                /\ FeeCount(fs, "Lot Fee") = 1
                /\ FeeCount(fs, "Power Washing") <= 1
                /\ FeeCount(fs, "Decal Removal") <= 1
                /\ Len(fs) \in 2..4
                /\ \A j \in DOMAIN fs :
                      <<fs[j].fee_type, fs[j].fee_amount>> \in
                          {<<"Seller Service Fee", 200>>, <<"Lot Fee", 150>>,
                           <<"Power Washing", 225>>, <<"Decal Removal", 100>>}

\* two completed items, the first with the two fixed fees only and the
\* second with all four
C7_Witness ==
    /\ Len(items) = 2
    /\ Completed(2)
    /\ Len(FeesOf(1)) = 2
    /\ Len(FeesOf(2)) = 4

\* C8: reserve_met is 1 exactly when hammer >= reserve_price, else 0
C8_ReserveMet ==
    \A k \in DOMAIN items :
        /\ items[k].reserve_met \in {0, 1}
        /\ items[k].reserve_met = 1 <=> items[k].hammer >= items[k].reserve_price

\* an item sold at the lowest hammer of its category with the highest
\* reserve price of its category
C8_Witness ==
    \E k \in DOMAIN items :
        /\ items[k].hammer = PRICE_RANGES[items[k].category][1]
        /\ 10 * items[k].reserve_price = 9 * PRICE_RANGES[items[k].category][1]
        /\ items[k].reserve_met = 1

CustomersWithId(id) == {k \in DOMAIN customers : customers[k].customer_id = id}

\* C10: an item's seller_id is the id of one customer, of type seller or
\* both, whose business segment (Core, Enterprise or Expansion) is the
\* item's; its buyer_id is the id of one customer of type buyer or both; a
\* bid's bidder_id is the id of one customer of type buyer or both
C10_ReferentialIntegrity ==
    /\ \A k \in DOMAIN items :
          /\ Cardinality(CustomersWithId(items[k].seller_id)) = 1
          /\ \A c \in CustomersWithId(items[k].seller_id) :
                /\ customers[c].customer_type \in {"seller", "both"}
                /\ items[k].business_segment = customers[c].business_segment
          /\ items[k].business_segment \in {"Core", "Enterprise", "Expansion"}
          /\ Cardinality(CustomersWithId(items[k].buyer_id)) = 1
          /\ \A c \in CustomersWithId(items[k].buyer_id) :
                customers[c].customer_type \in {"buyer", "both"}
    /\ \A j \in DOMAIN bids :
          /\ Cardinality(CustomersWithId(bids[j].bidder_id)) = 1
          /\ \A c \in CustomersWithId(bids[j].bidder_id) :
                customers[c].customer_type \in {"buyer", "both"}

\* a completed item of an Enterprise seller that is also a buyer, bought by
\* a pure buyer, with a losing bid of the seller
C10_Witness ==
    \E k \in DOMAIN items :
        /\ Completed(k)
        /\ items[k].business_segment = "Enterprise"
        /\ \E c \in CustomersWithId(items[k].seller_id) :
              customers[c].customer_type = "both"
        /\ \E c \in CustomersWithId(items[k].buyer_id) :
              customers[c].customer_type = "buyer"
        /\ \E j \in DOMAIN bids :
              /\ bids[j].is_winning_bid = 0
              /\ bids[j].bidder_id = items[k].seller_id

\* the auction dates of the calendar week of Thanksgiving, 2025-11-24
\* (day 115 from 2025-08-01) to 2025-11-30 (day 121)
InThanksgivingWeek(date) == date - START_DATE \in 115..121

\* C11 as stated: the reduced item count (180..220) is drawn exactly on the
\* auction dates of the week of 2025-11-27, which are the dates of week 15
C11_ReducedInThanksgivingWeek ==
    (pc = "item" /\ n_done = 0) =>
        /\ InThanksgivingWeek(auction_dates[day]) <=> num_items \in 180..220
        /\ InThanksgivingWeek(auction_dates[day])
              <=> get_week_number(auction_dates[day]) = 15

\* C12 as stated: no two items of a run have the same ICN
C12_IcnUnique ==
    \A j \in DOMAIN items : \A k \in DOMAIN items :
        j # k => items[j].icn # items[k].icn

\* C13 as stated: an item can have reserve_price > hammer and so
\* reserve_met = 0; if any item can, the item with the greatest reserve
\* price (0.9 * min_price) and the least hammer (min_price) of its category
\* does
C13_ReserveCanExceedHammer ==
    \A k \in DOMAIN items :
        (/\ items[k].hammer = PRICE_RANGES[items[k].category][1]
         /\ items[k].reserve_price
               = (9 * PRICE_RANGES[items[k].category][1]) \div 10)
            => (items[k].reserve_price > items[k].hammer
                   /\ items[k].reserve_met = 0)

\* C13 amended: the ranges do not overlap: reserve_price is at most
\* 0.9 * min_price and hammer at least min_price, so every item has
\* reserve_price < hammer and reserve_met = 1
C13_ReserveBelowHammer ==
    \A k \in DOMAIN items :
        /\ 10 * items[k].reserve_price <= 9 * PRICE_RANGES[items[k].category][1]
        /\ PRICE_RANGES[items[k].category][1] <= items[k].hammer
        /\ items[k].reserve_price < items[k].hammer
        /\ items[k].reserve_met = 1

\* the closest the two prices get: a Passenger item with reserve price 1800
\* and hammer 2000
C13_Witness ==
    \E k \in DOMAIN items :
        /\ items[k].category = "Passenger"
        /\ items[k].reserve_price = 1800
        /\ items[k].hammer = 2000
        /\ items[k].reserve_met = 1

\* C14: an item's region_id is STATE_TO_REGION of its state, in 1..3; its
\* district_id is one of the four districts of the region, in 1..12; its
\* territory_id is one of the eight territories of the district, in 1..96
C14_GeoHierarchy ==
    \A k \in DOMAIN items :
        /\ items[k].region_id = STATE_TO_REGION[items[k].location_state]
        /\ items[k].region_id \in 1..3
        /\ items[k].district_id >= 4 * (items[k].region_id - 1) + 1
        /\ items[k].district_id <= 4 * items[k].region_id
        /\ items[k].district_id \in 1..12
        /\ items[k].territory_id >= 8 * (items[k].district_id - 1) + 1
        /\ items[k].territory_id <= 8 * items[k].district_id
        /\ items[k].territory_id \in 1..96

\* an item in Colorado with the last district and the last territory
C14_Witness ==
    \E k \in DOMAIN items :
        /\ items[k].location_state = "CO"
        /\ items[k].region_id = 3
        /\ items[k].district_id = 12
        /\ items[k].territory_id = 96

\* C15: items, bids and fees are numbered 1, 2, 3, ... in the order they
\* are emitted; a bid or fee carries the id of an item already emitted, the
\* ids never go back (one block of bids and one block of fees per item), and
\* the records emitted since the last item was appended, before item_id is
\* advanced, carry that last item's id
C15_IdCounters ==
    /\ \A k \in DOMAIN items : items[k].unique_id = k
    /\ \A j \in DOMAIN bids : bids[j].bid_id = j /\ bids[j].item_id \in DOMAIN items
    /\ \A j \in DOMAIN fees : fees[j].fee_id = j /\ fees[j].item_id \in DOMAIN items
    /\ \A j \in 2..Len(bids) : bids[j - 1].item_id <= bids[j].item_id
    /\ \A j \in 2..Len(fees) : fees[j - 1].item_id <= fees[j].item_id
    /\ \A k \in DOMAIN items :
          IF Completed(k)
          THEN Len(BidsOf(k)) = items[k].num_bids /\ Len(FeesOf(k)) >= 2
          ELSE /\ k = Len(items)
               /\ item_id = k
               /\ Len(BidsOf(k)) = bid_num
               /\ Len(FeesOf(k)) = 0

\* two completed items, the first with 15 bids and three fees: the second
\* item's bids start at bid_id 16 and its fees at fee_id 4
C15_Witness ==
    /\ Len(items) = 2
    /\ Completed(2)
    /\ Len(BidsOf(1)) = 15
    /\ Len(FeesOf(1)) = 3
    /\ bids[16].item_id = 2
    /\ fees[4].item_id = 2
    /\ item_id = 3

\* C16: the two scripts agree on week numbering.  After the database variant
\* has processed an auction date, its running week_number equals the CSV
\* variant's get_week_number of that date and the mix in force is the one of
\* that week; the dates of weeks 10 and 15 are the same dates in the list of
\* the database variant and in the list of the CSV variant
C16_WeekNumbersAgree ==
    /\ mock_day >= 1 =>
          /\ week_number = get_week_number(mock_dates[mock_day])
          /\ mix = get_category_mix(get_week_number(mock_dates[mock_day]))
    /\ mock_pc # "dates" =>
          \A w \in {10, 15} :
             {d \in Range(mock_dates) : get_week_number(d) = w}
                = {d \in Range(GenerateAuctionDates) : get_week_number(d) = w}

\* the last date of week 15 has been processed: the counter was advanced 15
\* times, once at each Tuesday, and the week-15 mix is in force
C16_Witness ==
    /\ mock_day >= 1
    /\ mock_dates[mock_day] = Date(2025, 11, 13)
    /\ week_number = 15
    /\ current_week_start = Date(2025, 11, 11)
    /\ mix = MOCK_WEEK_15_MIX

=============================================================================
